---- MODULE Spec2Model ----
(***************************************************************************)
(* Leap-frog Maxwell solver of ex_4/ex04_Safin.ipynb: the two field        *)
(* updates update_E_vec / update_B_vec and the time-iteration loop that    *)
(* alternates them.                                                        *)
(*                                                                         *)
(* Numbers.  The notebook computes in float64.  A value is modelled as an  *)
(* exact fraction <<n, d>> in lowest terms with d > 0, extended with the   *)
(* IEEE specials that a division by zero produces in numpy: <<1, 0>> is    *)
(* +inf, <<-1, 0>> is -inf and <<0, 0>> is nan.  Rounding is not modelled. *)
(*                                                                         *)
(* Arrays.  A field is [shape |-> S, data |-> D] where S[d] is the lattice *)
(* extent along axis d (np.shape is (3, S[0], S[1], S[2])) and D maps      *)
(* <<c, i, j, k>> to a value.  Indices are 0-based as in the source.       *)
(***************************************************************************)
EXTENDS Integers, Sequences, FiniteSets, TLC

\* ------------------------------------------------------------------ bounds
MaxN     == 3   \* largest lattice extent along one axis
MaxCells == 6   \* largest number of lattice points of a grid
MaxSteps == 2   \* largest N_timesteps
MaxVal   == 2   \* magnitude of the impulse in an initial field
MaxParCells == 3  \* largest grid whose loop nest is run as a parallel-for

Axes == 0..2
Comp == 0..2

\* ------------------------------------------------------- float arithmetic
Abs(x) == IF x < 0 THEN -x ELSE x

Sign(x) == IF x < 0 THEN -1 ELSE IF x > 0 THEN 1 ELSE 0

RECURSIVE GCD(_, _)
GCD(a, b) == IF b = 0 THEN a ELSE GCD(b, a % b)

\* the value n/d: lowest terms, positive denominator; d = 0 gives inf or nan
Norm(n, d) ==
  IF d = 0 THEN <<Sign(n), 0>>
  ELSE LET g == GCD(Abs(n), Abs(d))
           s == IF d < 0 THEN -1 ELSE 1
       IN  <<s * (n \div g), s * (d \div g)>>

F(n)  == <<n, 1>>
Zero  == F(0)
NaN   == <<0, 0>>
IsFinite(x) == x[2] # 0

fNeg(x) == <<-x[1], x[2]>>

\* x + y
fAdd(x, y) ==
  IF x[2] = 0 /\ y[2] = 0
  THEN (IF x = y THEN x ELSE NaN)
  ELSE LET g == GCD(x[2], y[2])
       IN  Norm(x[1] * (y[2] \div g) + y[1] * (x[2] \div g),
                (x[2] \div g) * y[2])

\* x - y
fSub(x, y) == fAdd(x, fNeg(y))

\* x * y
fMul(x, y) == Norm(x[1] * y[1], x[2] * y[2])

\* x / y as numpy divides floats: a warning, never an exception, when y = 0
fDiv(x, y) == fMul(x, Norm(y[2], y[1]))

\* ------------------------------------------------------------ numpy arrays
Cells(S) == IF \E d \in Axes : S[d] <= 0 THEN 0 ELSE S[0] * S[1] * S[2]

Index(S) == Comp \X (0..(S[0] - 1)) \X (0..(S[1] - 1)) \X (0..(S[2] - 1))

\* np.zeros(np.shape(A), dtype=float)
np_zeros(S) == [shape |-> S, data |-> [x \in Index(S) |-> Zero]]

\* a subscript idx is legal on an axis of extent size iff -size <= idx < size
InRange(idx, size) == -size <= idx /\ idx < size

\* a subscript below zero clamped to the first position: no wrap
PyIndexClamp(idx, size) == IF idx < 0 THEN 0 ELSE idx

\* the position a legal subscript denotes: a negative one counts from the end
PyIndex(idx, size) == IF idx < 0 THEN idx + size ELSE idx

\* the lattice position A[c, i, j, k] denotes
Resolve(A, i, j, k) ==
  <<PyIndex(i, A.shape[0]), PyIndex(j, A.shape[1]), PyIndex(k, A.shape[2])>>

\* A[c, i, j, k] does not raise IndexError
AccessOK(A, i, j, k) ==
  InRange(i, A.shape[0]) /\ InRange(j, A.shape[1]) /\ InRange(k, A.shape[2])

\* the value of A[c, i, j, k]
get(A, c, i, j, k) == A.data[<<c>> \o Resolve(A, i, j, k)]

\* A[c, i, j, k] = v
set(A, c, i, j, k, v) == [A EXCEPT !.data[<<c>> \o Resolve(A, i, j, k)] = v]

\* delta_n = dt / h  (a vector)
delta(dt_, h_) == [d \in Axes |-> fDiv(dt_, h_[d])]

\* ------------------------------------------- the i, j, k loop nest of N
\* a loop nest that stops one lattice point short
LoopDoneShort(pos_, N_) == pos_ >= Cells(N_) - 1

\* the loop nest is exhausted once pos lattice points have been visited
LoopDone(pos_, N_) == pos_ >= Cells(N_)

\* the pos-th point (0-based) the nest visits: k fastest, then j, then i
PointAt(N_, pos_) ==
  <<pos_ \div (N_[1] * N_[2]), (pos_ \div N_[2]) % N_[1], pos_ % N_[2]>>

\* ------------------------------------------------------------ update_E_vec
\* E_new_x with delta_n[1] and delta_n[2] exchanged
E_new_x_swap(dn, E, B, i, j, k) ==
  fAdd(get(E, 0, i, j, k),
       fSub(fMul(dn[2], fSub(get(B, 2, i, j, k), get(B, 2, i, j - 1, k))),
            fMul(dn[1], fSub(get(B, 1, i, j, k), get(B, 1, i, j, k - 1)))))

E_new_x(dn, E, B, i, j, k) ==
  fAdd(get(E, 0, i, j, k),
       fSub(fMul(dn[1], fSub(get(B, 2, i, j, k), get(B, 2, i, j - 1, k))),
            fMul(dn[2], fSub(get(B, 1, i, j, k), get(B, 1, i, j, k - 1)))))

\* E_new_y with delta_n[1] where delta_n[0] belongs
E_new_y_delta(dn, E, B, i, j, k) ==
  fAdd(get(E, 1, i, j, k),
       fSub(fMul(dn[2], fSub(get(B, 0, i, j, k), get(B, 0, i, j, k - 1))),
            fMul(dn[1], fSub(get(B, 2, i, j, k), get(B, 2, i - 1, j, k)))))

E_new_y(dn, E, B, i, j, k) ==
  fAdd(get(E, 1, i, j, k),
       fSub(fMul(dn[2], fSub(get(B, 0, i, j, k), get(B, 0, i, j, k - 1))),
            fMul(dn[0], fSub(get(B, 2, i, j, k), get(B, 2, i - 1, j, k)))))

\* E_new_z with delta_n[0] added to the difference instead of multiplying it
E_new_z_plus(dn, E, B, i, j, k) ==
  fAdd(get(E, 2, i, j, k),
       fSub(fAdd(dn[0], fSub(get(B, 1, i, j, k), get(B, 1, i - 1, j, k))),
            fMul(dn[1], fSub(get(B, 0, i, j, k), get(B, 0, i, j - 1, k)))))

E_new_z(dn, E, B, i, j, k) ==
  fAdd(get(E, 2, i, j, k),
       fSub(fMul(dn[0], fSub(get(B, 1, i, j, k), get(B, 1, i - 1, j, k))),
            fMul(dn[1], fSub(get(B, 0, i, j, k), get(B, 0, i, j - 1, k)))))

\* the subscripts the three assignments of one loop body apply to the array
\* that is differenced (B_vec in update_E_vec, E_vec in update_B_vec)
NeighbourAccesses(i, j, k) ==
  { <<2, i, j, k>>, <<2, i, j - 1, k>>, <<1, i, j, k>>, <<1, i, j, k - 1>>,
    <<0, i, j, k>>, <<0, i, j, k - 1>>, <<2, i - 1, j, k>>,
    <<1, i - 1, j, k>>, <<0, i, j - 1, k>> }

\* no subscript of the loop body at (i, j, k) raises IndexError; Own is the
\* array read and written at (i, j, k), Other the array that is differenced
BodyOK(Own, Other, i, j, k) ==
  /\ AccessOK(Own, i, j, k)
  /\ \A a \in NeighbourAccesses(i, j, k) : AccessOK(Other, a[2], a[3], a[4])

\* the three assignments of the loop body at point p
E_body(dn, E, B, E_new, p) ==
  LET i == p[1]
      j == p[2]
      k == p[3]
      a == set(E_new, 0, i, j, k, E_new_x(dn, E, B, i, j, k))
      b == set(a,     1, i, j, k, E_new_y(dn, E, B, i, j, k))
  IN  set(b, 2, i, j, k, E_new_z(dn, E, B, i, j, k))

\* what the loop body at point p reads of the differenced array Other:
\* the subscript as written and the lattice position it denotes
BodyReads(Other, p) ==
  { [c |-> a[1], raw |-> <<a[2], a[3], a[4]>>,
     at |-> Resolve(Other, a[2], a[3], a[4])] :
    a \in NeighbourAccesses(p[1], p[2], p[3]) }

RECURSIVE E_loop(_, _, _, _, _, _, _)
E_loop(dn, N_, E, B, E_new, pos_, reads_) ==
  IF LoopDone(pos_, N_)
  THEN [status |-> "return", value |-> E_new, visited |-> pos_,
        reads |-> reads_]
  ELSE LET p == PointAt(N_, pos_) IN
       IF ~BodyOK(E, B, p[1], p[2], p[3])
       THEN [status |-> "IndexError", value |-> np_zeros([d \in Axes |-> 0]),
             visited |-> pos_, reads |-> reads_]
       ELSE E_loop(dn, N_, E, B, E_body(dn, E, B, E_new, p), pos_ + 1,
                   reads_ \cup BodyReads(B, p))

update_E_vec(dt_, h_, N_, E, B) ==
  E_loop(delta(dt_, h_), N_, E, B, np_zeros(E.shape), 0, {})

\* ------------------------------------------------------------ update_B_vec
B_new_x(dn, E, B, i, j, k) ==
  fSub(get(B, 0, i, j, k),
       fSub(fMul(dn[1], fSub(get(E, 2, i, j, k), get(E, 2, i, j - 1, k))),
            fMul(dn[2], fSub(get(E, 1, i, j, k), get(E, 1, i, j, k - 1)))))

\* B_new_y with delta_n[2] added to the difference instead of multiplying it
B_new_y_plus(dn, E, B, i, j, k) ==
  fSub(get(B, 1, i, j, k),
       fSub(fAdd(dn[2], fSub(get(E, 0, i, j, k), get(E, 0, i, j, k - 1))),
            fMul(dn[0], fSub(get(E, 2, i, j, k), get(E, 2, i - 1, j, k)))))

B_new_y(dn, E, B, i, j, k) ==
  fSub(get(B, 1, i, j, k),
       fSub(fMul(dn[2], fSub(get(E, 0, i, j, k), get(E, 0, i, j, k - 1))),
            fMul(dn[0], fSub(get(E, 2, i, j, k), get(E, 2, i - 1, j, k)))))

\* B_new_z with the sign of update_E_vec: the curl added, not subtracted
B_new_z_sign(dn, E, B, i, j, k) ==
  fAdd(get(B, 2, i, j, k),
       fSub(fMul(dn[0], fSub(get(E, 1, i, j, k), get(E, 1, i - 1, j, k))),
            fMul(dn[1], fSub(get(E, 0, i, j, k), get(E, 0, i, j - 1, k)))))

B_new_z(dn, E, B, i, j, k) ==
  fSub(get(B, 2, i, j, k),
       fSub(fMul(dn[0], fSub(get(E, 1, i, j, k), get(E, 1, i - 1, j, k))),
            fMul(dn[1], fSub(get(E, 0, i, j, k), get(E, 0, i, j - 1, k)))))

B_body(dn, E, B, B_new, p) ==
  LET i == p[1]
      j == p[2]
      k == p[3]
      a == set(B_new, 0, i, j, k, B_new_x(dn, E, B, i, j, k))
      b == set(a,     1, i, j, k, B_new_y(dn, E, B, i, j, k))
  IN  set(b, 2, i, j, k, B_new_z(dn, E, B, i, j, k))

RECURSIVE B_loop(_, _, _, _, _, _, _)
B_loop(dn, N_, E, B, B_new, pos_, reads_) ==
  IF LoopDone(pos_, N_)
  THEN [status |-> "return", value |-> B_new, visited |-> pos_,
        reads |-> reads_]
  ELSE LET p == PointAt(N_, pos_) IN
       IF ~BodyOK(B, E, p[1], p[2], p[3])
       THEN [status |-> "IndexError", value |-> np_zeros([d \in Axes |-> 0]),
             visited |-> pos_, reads |-> reads_]
       ELSE B_loop(dn, N_, E, B, B_body(dn, E, B, B_new, p), pos_ + 1,
                   reads_ \cup BodyReads(E, p))

\* update_B_vec returning its argument B_vec instead of B_vec_new
update_B_vec_stale(dt_, h_, N_, E, B) ==
  [B_loop(delta(dt_, h_), N_, E, B, np_zeros(B.shape), 0, {})
     EXCEPT !.value = B]

update_B_vec(dt_, h_, N_, E, B) ==
  B_loop(delta(dt_, h_), N_, E, B, np_zeros(B.shape), 0, {})

\* ------------------------------------------------------------------ inputs
\* grid sizes N: every axis has at least one point
Shapes == { S \in [Axes -> 1..MaxN] : Cells(S) <= MaxCells }

AllPoints(S) == (0..(S[0] - 1)) \X (0..(S[1] - 1)) \X (0..(S[2] - 1))

\* a field of shape S whose values differ from point to point
Pattern(S, s) ==
  [shape |-> S,
   data  |-> [x \in Index(S) |->
                F((((s + 1) * x[1] + (x[2] + 1) * (x[2] + s) + 3 * x[3] * (s + 1)
                    + 5 * x[4] + x[1] * x[2] * x[4] + x[3] * x[4]) % 7) - 3)]]

\* a field of shape S that is v at x0 and zero elsewhere
Impulse(S, x0, v) ==
  [shape |-> S, data |-> [x \in Index(S) |-> IF x = x0 THEN F(v) ELSE Zero]]

\* a field of shape S whose component c does not vary along axis c
Solenoidal(S) ==
  [shape |-> S,
   data  |-> [x \in Index(S) |->
                F((((x[1] + 1) * ((IF x[1] = 0 THEN 0 ELSE x[2])
                                  + 2 * (IF x[1] = 1 THEN 0 ELSE x[3])
                                  + 3 * (IF x[1] = 2 THEN 0 ELSE x[4]))
                    + x[1]) % 5) - 2)]]

\* initial conditions (E0, B0) of shape S
InitPairs(S) ==
  { <<np_zeros(S), np_zeros(S)>>, <<Pattern(S, 0), Solenoidal(S)>> }
  \cup { <<Pattern(S, 0), Impulse(S, x, MaxVal)>> : x \in Index(S) }
  \cup { <<Impulse(S, x, MaxVal), Pattern(S, 1)>> : x \in Index(S) }

Vec(a, b, c) == [d \in Axes |-> IF d = 0 THEN a ELSE IF d = 1 THEN b ELSE c]

\* time-step sizes dt > 0 with grid spacings h, every h[d] > 0
StepSizes == { <<Norm(1, 2), Vec(F(1), F(2), Norm(1, 2))>>,
               <<F(1), Vec(F(2), Norm(1, 2), F(1))>> }

NoField == np_zeros(Vec(0, 0, 0))

NoRet == [status |-> "none", value |-> NoField, visited |-> 0, reads |-> {}]

\* ------------------------------------------------------------ array objects
\* An ndarray is an object: names are bound to objects, an assignment to a
\* name rebinds it, a subscript assignment writes into the object, and two
\* names bound to one object alias.  An object lives at an address; CPython
\* releases it when no name is bound to it any more and may give its
\* address to a later allocation.
Addr == 0..4

\* a name bound to no object
Null == -1

NoRef == [E0 |-> Null, B0 |-> Null, E_vec |-> Null, B_vec |-> Null,
          E_vec_new |-> Null, B_vec_new |-> Null]

NoHeap == [a \in Addr |-> [live |-> FALSE, obj |-> NoField]]

\* the address a new object gets: one that holds no live object
Alloc(hp) ==
  CHOOSE a \in Addr :
    ~hp[a].live /\ \A b \in Addr : ~hp[b].live => a <= b

\* the object A placed at address a
Store(hp, a, A) == [hp EXCEPT ![a] = [live |-> TRUE, obj |-> A]]

\* the object at address a is released unless a name of r is bound to it
Release(hp, r, a) ==
  IF \E name \in DOMAIN r : r[name] = a THEN hp
  ELSE [hp EXCEPT ![a] = [live |-> FALSE, obj |-> NoField]]

\* ------------------------------------------------------------------- state
VARIABLES
  dt,           \* time-step size
  h,            \* grid spacings
  N,            \* numbers of grid points
  N_timesteps,  \* number of iterations of the time loop
  E0, B0,       \* initial conditions
  E_vec, B_vec, \* the fields the loop rebinds; the arguments of a call
  step,         \* iterations of the time loop completed (the loop's k)
  pc,           \* position of the program
  E_vec_new,    \* output buffer of a running update_E_vec
  B_vec_new,    \* output buffer of a running update_B_vec
  delta_n,      \* dt / h of the running update
  pos,          \* lattice points the running update has visited
  written,      \* lattice points the latest update has assigned
  calls,        \* the update calls begun so far, in order
  active,       \* the update calls in progress
  ret,          \* outcome of a directly invoked update
  c_scale,      \* factor applied to the arguments of a scaled call
  pair,         \* (E, B) after one directly invoked iteration
  heap,         \* the array objects in memory, by address
  ref,          \* the address each name of the program is bound to
  progress      \* statements of the loop body executed, per lattice point

vars == <<dt, h, N, N_timesteps, E0, B0, E_vec, B_vec, step, pc, E_vec_new,
          B_vec_new, delta_n, pos, written, calls, active, ret, c_scale,
          pair, heap, ref, progress>>

params == <<dt, h, N, N_timesteps, E0, B0>>

direct == <<ret, c_scale, pair>>

objects == <<heap, ref, progress>>

\* ----------------------------------------------- the time-iteration loop
\* range(N_timesteps + 1): one iteration too many
HasNextOffByOne(step_, M) == step_ <= M

\* for k in range(N_timesteps): another iteration follows
HasNext(step_, M) == step_ < M

Init ==
  /\ \E sz \in StepSizes : dt = sz[1] /\ h = sz[2]
  /\ N \in Shapes
  /\ N_timesteps \in 0..MaxSteps
  /\ \E ic \in InitPairs(N) : E0 = ic[1] /\ B0 = ic[2]
  /\ E_vec = E0
  /\ B_vec = B0
  /\ step = 0
  /\ pc = "for"
  /\ E_vec_new = NoField
  /\ B_vec_new = NoField
  /\ delta_n = Vec(Zero, Zero, Zero)
  /\ pos = 0
  /\ written = {}
  /\ calls = <<>>
  /\ active = {}
  /\ ret = NoRet
  /\ c_scale = F(1)
  /\ pair = <<NoField, NoField>>
  /\ heap = NoHeap
  /\ ref = NoRef
  /\ progress = <<>>

\* E_vec = update_E_vec(dt, h, N, E_vec, B_vec): entry, up to the loop nest
E_call ==
  /\ pc = "for"
  /\ HasNext(step, N_timesteps)
  /\ E_vec_new' = np_zeros(E_vec.shape)
  /\ delta_n' = delta(dt, h)
  /\ pos' = 0
  /\ written' = {}
  /\ calls' = Append(calls, "E")
  /\ active' = active \cup {"E"}
  /\ pc' = "E_loop"
  /\ UNCHANGED <<params, E_vec, B_vec, step, B_vec_new, direct, objects>>

\* one pass through the body of the loop nest of update_E_vec
E_point ==
  /\ pc = "E_loop"
  /\ ~LoopDone(pos, N)
  /\ LET p == PointAt(N, pos) IN
       /\ BodyOK(E_vec, B_vec, p[1], p[2], p[3])
       /\ E_vec_new' = E_body(delta_n, E_vec, B_vec, E_vec_new, p)
       /\ written' = written \cup {p}
  /\ pos' = pos + 1
  /\ UNCHANGED <<params, E_vec, B_vec, step, pc, B_vec_new, delta_n, calls,
                 active, direct, objects>>

\* return E_vec_new, bound to E_vec by the loop
E_return ==
  /\ pc = "E_loop"
  /\ LoopDone(pos, N)
  /\ E_vec' = E_vec_new
  /\ E_vec_new' = NoField
  /\ active' = active \ {"E"}
  /\ pc' = "B_call"
  /\ UNCHANGED <<params, B_vec, step, B_vec_new, delta_n, pos, written, calls,
                 direct, objects>>

\* B_vec = update_B_vec(dt, h, N, E_vec, B_vec): entry, up to the loop nest
B_call ==
  /\ pc = "B_call"
  /\ B_vec_new' = np_zeros(B_vec.shape)
  /\ delta_n' = delta(dt, h)
  /\ pos' = 0
  /\ written' = {}
  /\ calls' = Append(calls, "B")
  /\ active' = active \cup {"B"}
  /\ pc' = "B_loop"
  /\ UNCHANGED <<params, E_vec, B_vec, step, E_vec_new, direct, objects>>

\* one pass through the body of the loop nest of update_B_vec
B_point ==
  /\ pc = "B_loop"
  /\ ~LoopDone(pos, N)
  /\ LET p == PointAt(N, pos) IN
       /\ BodyOK(B_vec, E_vec, p[1], p[2], p[3])
       /\ B_vec_new' = B_body(delta_n, E_vec, B_vec, B_vec_new, p)
       /\ written' = written \cup {p}
  /\ pos' = pos + 1
  /\ UNCHANGED <<params, E_vec, B_vec, step, pc, E_vec_new, delta_n, calls,
                 active, direct, objects>>

\* return B_vec_new, bound to B_vec by the loop; the iteration is complete
B_return ==
  /\ pc = "B_loop"
  /\ LoopDone(pos, N)
  /\ B_vec' = B_vec_new
  /\ B_vec_new' = NoField
  /\ active' = active \ {"B"}
  /\ step' = step + 1
  /\ pc' = "for"
  /\ UNCHANGED <<params, E_vec, E_vec_new, delta_n, pos, written, calls, direct,
                 objects>>

\* range(N_timesteps) is exhausted: the loop ends with the final (E, B)
LoopExit ==
  /\ pc = "for"
  /\ ~HasNext(step, N_timesteps)
  /\ pc' = "done"
  /\ UNCHANGED <<params, E_vec, B_vec, step, E_vec_new, B_vec_new, delta_n,
                 pos, written, calls, active, direct, objects>>

Next ==
  \/ E_call
  \/ E_point
  \/ E_return
  \/ B_call
  \/ B_point
  \/ B_return
  \/ LoopExit

Spec == Init /\ [][Next]_vars

\* ===================================================== the time loop: claims
\* (E_m, B_m) of the leap-frog recurrence: E_{n+1} from (E_n, B_n), then
\* B_{n+1} from (E_{n+1}, B_n)
RECURSIVE LeapFrog(_, _, _)
LeapFrog(m, E, B) ==
  IF m = 0 THEN <<E, B>>
  ELSE LET P  == LeapFrog(m - 1, E, B)
           E1 == update_E_vec(dt, h, N, P[1], P[2]).value
           B1 == update_B_vec(dt, h, N, E1, P[2]).value
       IN  <<E1, B1>>

\* C1: the time loop cannot stop or run on before it has ended: no subscript
\* of a loop body raises IndexError, at most N_timesteps iterations are ever
\* begun and a call visits at most the lattice points of N; when the loop has
\* ended it has made exactly N_timesteps iterations (one update_E_vec and one
\* update_B_vec call each) and holds (E_M, B_M) of the leap-frog recurrence
\* from (E0, B0), in which each B-update reads the E of the same iteration;
\* for M = 0 that is (E0, B0).
C1_LoopResult ==
  /\ pc \in {"for", "E_loop", "B_call", "B_loop", "done"}
  /\ (pc = "E_loop" /\ ~LoopDone(pos, N)) =>
       LET p == PointAt(N, pos) IN BodyOK(E_vec, B_vec, p[1], p[2], p[3])
  /\ (pc = "B_loop" /\ ~LoopDone(pos, N)) =>
       LET p == PointAt(N, pos) IN BodyOK(B_vec, E_vec, p[1], p[2], p[3])
  /\ step <= N_timesteps /\ Len(calls) <= 2 * N_timesteps /\ pos <= Cells(N)
  /\ pc = "done" =>
       /\ step = N_timesteps
       /\ Len(calls) = 2 * N_timesteps
       /\ <<E_vec, B_vec>> = LeapFrog(N_timesteps, E0, B0)
       /\ (N_timesteps = 0 => E_vec = E0 /\ B_vec = B0)

\* a run of two iterations has ended, and the B-update of the first iteration
\* would have produced another field from the E it started with
C1_Witness ==
  /\ pc = "done"
  /\ N_timesteps = 2
  /\ E_vec # E0
  /\ update_B_vec(dt, h, N, E0, B0).value
       # update_B_vec(dt, h, N, update_E_vec(dt, h, N, E0, B0).value, B0).value

\* C5: from all-zero initial conditions E and B are zero at every component
\* and lattice point after every update of every iteration.
C5_ZeroFixedPoint ==
  (E0 = np_zeros(N) /\ B0 = np_zeros(N))
    => (E_vec = np_zeros(N) /\ B_vec = np_zeros(N))

\* an iteration from the zero fields has completed on a grid with neighbours
C5_Witness ==
  /\ E0 = np_zeros(N)
  /\ B0 = np_zeros(N)
  /\ step >= 1
  /\ pc = "for"
  /\ Cells(N) > 1

\* C10: the update calls begin in the order E, B, E, B, ...; when a B-update
\* is about to begin the E-update of the same iteration has assigned every
\* lattice point and returned; when an E-update of a later iteration is about
\* to begin the B-update before it has assigned every lattice point and
\* returned; at most one update is in progress at any time.
C10_Ordering ==
  /\ \A n \in 1..Len(calls) : calls[n] = (IF n % 2 = 1 THEN "E" ELSE "B")
  /\ Cardinality(active) <= 1
  /\ pc = "E_loop" => active = {"E"} /\ Len(calls) = 2 * step + 1
  /\ pc = "B_loop" => active = {"B"} /\ Len(calls) = 2 * step + 2
  /\ pc = "B_call" =>
       active = {} /\ written = AllPoints(N) /\ Len(calls) = 2 * step + 1
  /\ (pc = "for" /\ step > 0) =>
       active = {} /\ written = AllPoints(N) /\ Len(calls) = 2 * step

\* the B-update of the second iteration is under way
C10_Witness ==
  /\ pc = "B_loop"
  /\ Len(calls) = 4
  /\ pos > 0
  /\ Cells(N) > 1

\* ================================================== direct calls of the updates
\* update_E_vec and update_B_vec invoked on their own, as a caller of the
\* two functions can: with the arguments of the time loop, with arrays whose
\* shapes differ from N or from each other, and with dt, h or N out of range.

\* shapes one lattice extent away from S along one axis
Near(S) ==
  {S} \cup { [S EXCEPT ![d] = S[d] + 1] : d \in Axes }
      \cup { [S EXCEPT ![d] = S[d] - 1] : d \in { a \in Axes : S[a] > 1 } }

SomeStep == CHOOSE sz \in StepSizes : sz[1] = Norm(1, 2)

\* the arguments of the call
CallWith(dt_, h_, N_, E, B) ==
  /\ dt = dt_
  /\ h = h_
  /\ N = N_
  /\ E_vec = E
  /\ B_vec = B

\* the arguments the time loop passes: both arrays of shape N
ShapedArgs ==
  \E S \in Shapes : \E ic \in InitPairs(S) :
    CallWith(SomeStep[1], SomeStep[2], S, ic[1], ic[2])

\* arrays whose shapes are not both N
MismatchArgs ==
  \E S \in Shapes : \E SE \in Near(S), SB \in Near(S) :
    /\ ~(SE = S /\ SB = S)
    /\ CallWith(SomeStep[1], SomeStep[2], S, Pattern(SE, 0), Pattern(SB, 1))

\* dt, one h[d] or one N[d] that is zero or negative
BadParamArgs ==
  \E S \in Shapes :
    \/ \E bad \in {F(0), Norm(-1, 2)} :
         CallWith(bad, SomeStep[2], S, Pattern(S, 0), Pattern(S, 1))
    \/ \E d \in Axes, bad \in {F(0), F(-1)} :
         CallWith(SomeStep[1], [SomeStep[2] EXCEPT ![d] = bad], S,
                  Pattern(S, 0), Pattern(S, 1))
    \/ \E d \in Axes, bad \in {0, -1} :
         CallWith(SomeStep[1], SomeStep[2], [S EXCEPT ![d] = bad],
                  Pattern(S, 0), Pattern(S, 1))
    \/ \E d \in Axes :
         CallWith(SomeStep[1], SomeStep[2], [S EXCEPT ![d] = 0],
                  Pattern([S EXCEPT ![d] = 0], 0),
                  Pattern([S EXCEPT ![d] = 0], 1))

\* factors c of a scaled call
Scales == { F(0), F(-1), Norm(3, 2) }

\* c * A
Scale(c, A) == [A EXCEPT !.data = [x \in DOMAIN A.data |-> fMul(c, A.data[x])]]

CallInit ==
  /\ (ShapedArgs \/ MismatchArgs \/ BadParamArgs)
  /\ E0 = E_vec
  /\ B0 = B_vec
  /\ N_timesteps = 1
  /\ step = 0
  /\ pc = "args"
  /\ E_vec_new = NoField
  /\ B_vec_new = NoField
  /\ delta_n = Vec(Zero, Zero, Zero)
  /\ pos = 0
  /\ written = {}
  /\ calls = <<>>
  /\ active = {}
  /\ ret = NoRet
  /\ c_scale = F(1)
  /\ pair = <<NoField, NoField>>
  /\ heap = NoHeap
  /\ ref = NoRef
  /\ progress = <<>>

loopvars == <<params, E_vec, B_vec, step, E_vec_new, B_vec_new, delta_n, pos,
              written, calls, active>>

\* update_E_vec(dt, h, N, E_vec, B_vec)
CallE ==
  /\ pc = "args"
  /\ ret' = update_E_vec(dt, h, N, E_vec, B_vec)
  /\ pc' = "E_ret"
  /\ UNCHANGED <<loopvars, objects, c_scale, pair>>

\* update_B_vec(dt, h, N, E_vec, B_vec)
CallB ==
  /\ pc = "args"
  /\ ret' = update_B_vec(dt, h, N, E_vec, B_vec)
  /\ pc' = "B_ret"
  /\ UNCHANGED <<loopvars, objects, c_scale, pair>>

\* update_E_vec(dt, h, N, c * E_vec, c * B_vec)
CallScaledE ==
  /\ pc = "args"
  /\ \E c \in Scales :
       /\ c_scale' = c
       /\ ret' = update_E_vec(dt, h, N, Scale(c, E_vec), Scale(c, B_vec))
  /\ pc' = "E_scaled_ret"
  /\ UNCHANGED <<loopvars, objects, pair>>

\* update_B_vec(dt, h, N, c * E_vec, c * B_vec)
CallScaledB ==
  /\ pc = "args"
  /\ \E c \in Scales :
       /\ c_scale' = c
       /\ ret' = update_B_vec(dt, h, N, Scale(c, E_vec), Scale(c, B_vec))
  /\ pc' = "B_scaled_ret"
  /\ UNCHANGED <<loopvars, objects, pair>>

\* one iteration of the time loop: E_vec = update_E_vec(...) and then
\* B_vec = update_B_vec(...) with the rebound E_vec
OneStep ==
  /\ pc = "args"
  /\ LET e == update_E_vec(dt, h, N, E_vec, B_vec)
         b == update_B_vec(dt, h, N, e.value, B_vec)
     IN  IF e.status = "return"
         THEN /\ ret' = b
              /\ pair' = IF b.status = "return" THEN <<e.value, b.value>>
                         ELSE <<NoField, NoField>>
         ELSE /\ ret' = e
              /\ pair' = <<NoField, NoField>>
  /\ pc' = "step_ret"
  /\ UNCHANGED <<loopvars, objects, c_scale>>

CallNext ==
  \/ CallE
  \/ CallB
  \/ CallScaledE
  \/ CallScaledB
  \/ OneStep

SpecCall == CallInit /\ [][CallNext]_vars

\* ===================================================== direct calls: claims
Positive(x) == x[1] > 0 /\ x[2] > 0

\* the arguments meet the contract of the updates: dt > 0, h > 0, N >= 1 and
\* both arrays of shape N
Contract ==
  /\ Positive(dt)
  /\ \A d \in Axes : Positive(h[d]) /\ N[d] >= 1
  /\ E_vec.shape = N
  /\ B_vec.shape = N

\* A[c, i, j, k] with every lattice index reduced modulo N
AtMod(A, c, i, j, k) == A.data[<<c, i % N[0], j % N[1], k % N[2]>>]

\* d_d = dt / h[d]
dd(d) == fDiv(dt, h[d])

\* d_a * (A[ca] - A[ca] one back along a) - d_b * (A[cb] - A[cb] one back along b)
\* at (i, j, k), indices modulo N
BackStep(a, i, j, k) ==
  <<IF a = 0 THEN i - 1 ELSE i, IF a = 1 THEN j - 1 ELSE j,
    IF a = 2 THEN k - 1 ELSE k>>

BackDiff(A, c, a, i, j, k) ==
  LET q == BackStep(a, i, j, k)
  IN  fSub(AtMod(A, c, i, j, k), AtMod(A, c, q[1], q[2], q[3]))

\* component c of the discrete curl of A at (i, j, k), weighted by d:
\* d_{c+1} * D_{c+1} A[c+2] - d_{c+2} * D_{c+2} A[c+1], indices cyclic
Curl(A, c, i, j, k) ==
  LET a == (c + 1) % 3
      b == (c + 2) % 3
  IN  fSub(fMul(dd(a), BackDiff(A, b, a, i, j, k)),
           fMul(dd(b), BackDiff(A, a, b, i, j, k)))

\* C2: on arguments that meet the contract update_E_vec returns a field of
\* the shape of E with E'[c] = E[c] + curl_c(B) at every lattice point of N,
\* the curl taken with backward differences whose indices wrap modulo N.
C2_EUpdate ==
  (pc = "E_ret" /\ Contract) =>
    /\ ret.status = "return"
    /\ ret.value.shape = E_vec.shape
    /\ DOMAIN ret.value.data = Index(N)
    /\ \A x \in Index(N) :
         ret.value.data[x]
           = fAdd(E_vec.data[x], Curl(B_vec, x[1], x[2], x[3], x[4]))

\* update_E_vec has returned on a grid with three points along an axis and a
\* B whose curl is not zero
C2_Witness ==
  /\ pc = "E_ret"
  /\ Contract
  /\ \E d \in Axes : N[d] = 3
  /\ ret.value # E_vec

\* C3: on arguments that meet the contract update_B_vec returns a field of
\* the shape of B with B'[c] = B[c] - curl_c(E) at every lattice point of N:
\* the increment of update_E_vec negated, with E and B exchanged.
C3_BUpdate ==
  (pc = "B_ret" /\ Contract) =>
    /\ ret.status = "return"
    /\ ret.value.shape = B_vec.shape
    /\ DOMAIN ret.value.data = Index(N)
    /\ \A x \in Index(N) :
         ret.value.data[x]
           = fSub(B_vec.data[x], Curl(E_vec, x[1], x[2], x[3], x[4]))

\* update_B_vec has returned on a grid with three points along an axis and
\* an E whose curl is not zero
C3_Witness ==
  /\ pc = "B_ret"
  /\ Contract
  /\ \E d \in Axes : N[d] = 3
  /\ ret.value # B_vec

\* C4: in a call on arrays of shape N, every neighbour subscript -1 along an
\* axis d reads position N[d] - 1 of that axis, every other subscript reads
\* its own position, and every position read lies in 0 .. N[d] - 1.
C4_PeriodicWrap ==
  (pc \in {"E_ret", "B_ret"} /\ E_vec.shape = N /\ B_vec.shape = N) =>
    /\ ret.status = "return"
    /\ \A r \in ret.reads : \A d \in Axes :
         /\ r.raw[d + 1] = -1 => r.at[d + 1] = N[d] - 1
         /\ r.raw[d + 1] >= 0 => r.at[d + 1] = r.raw[d + 1]
         /\ r.at[d + 1] \in 0..(N[d] - 1)

\* a call on arrays of shape N has read across the boundary of an axis with
\* three points
C4_Witness ==
  /\ pc \in {"E_ret", "B_ret"}
  /\ E_vec.shape = N
  /\ B_vec.shape = N
  /\ \E r \in ret.reads : \E d \in Axes :
       N[d] = 3 /\ r.raw[d + 1] = -1 /\ r.at[d + 1] = 2

\* A - B and c * A, point by point, for fields of one shape
FieldSub(A, B) == [x \in DOMAIN A.data |-> fSub(A.data[x], B.data[x])]

FieldScale(c, D) == [x \in DOMAIN D |-> fMul(c, D[x])]

\* C6: on arguments that meet the contract, the increment of an update on
\* the inputs scaled by c is c times its increment on the inputs themselves.
C6_Linearity ==
  /\ (pc = "E_scaled_ret" /\ Contract) =>
       /\ ret.status = "return"
       /\ FieldSub(ret.value, Scale(c_scale, E_vec))
            = FieldScale(c_scale,
                FieldSub(update_E_vec(dt, h, N, E_vec, B_vec).value, E_vec))
  /\ (pc = "B_scaled_ret" /\ Contract) =>
       /\ ret.status = "return"
       /\ FieldSub(ret.value, Scale(c_scale, B_vec))
            = FieldScale(c_scale,
                FieldSub(update_B_vec(dt, h, N, E_vec, B_vec).value, B_vec))

\* a scaled update has returned a field with a non-zero increment for a
\* factor other than 0 and 1
C6_Witness ==
  /\ pc \in {"E_scaled_ret", "B_scaled_ret"}
  /\ Contract
  /\ c_scale = Norm(3, 2)
  /\ ret.value # (IF pc = "E_scaled_ret" THEN Scale(c_scale, E_vec)
                  ELSE Scale(c_scale, B_vec))

\* one iteration in the swapped order: B from (E, B) first, then E from the
\* new B
Swapped(E, B) ==
  LET B2 == update_B_vec(dt, h, N, E, B).value
      E2 == update_E_vec(dt, h, N, E, B2).value
  IN  <<E2, B2>>

\* one iteration in the order of the time loop
Specified(E, B) ==
  LET E1 == update_E_vec(dt, h, N, E, B).value
      B1 == update_B_vec(dt, h, N, E1, B).value
  IN  <<E1, B1>>

\* E or B has a non-zero discrete curl: an update changes its field
NonzeroCurl(E, B) ==
  \/ update_E_vec(dt, h, N, E, B).value # E
  \/ update_B_vec(dt, h, N, E, B).value # B

\* C7: for every dt, h of the contract and every grid with at least two
\* points along some axis there are fields E, B of shape N with non-zero
\* curl on which one iteration in the order of the time loop and one in the
\* swapped order end in different (E, B) pairs.
C7_OrderSensitive ==
  (pc = "args" /\ Contract /\ \E d \in Axes : N[d] >= 2) =>
    \E x \in Index(N) :
      /\ NonzeroCurl(Pattern(N, 0), Impulse(N, x, MaxVal))
      /\ Specified(Pattern(N, 0), Impulse(N, x, MaxVal))
           # Swapped(Pattern(N, 0), Impulse(N, x, MaxVal))

\* an iteration of the time loop has ended in a pair that the swapped order
\* does not produce from the same fields
C7_Witness ==
  /\ pc = "step_ret"
  /\ Contract
  /\ ret.status = "return"
  /\ NonzeroCurl(E_vec, B_vec)
  /\ pair = Specified(E_vec, B_vec)
  /\ pair # Swapped(E_vec, B_vec)

\* C8: a call of update_E_vec or update_B_vec on an E and a B of different
\* lattice shapes fails with ShapeMismatch before it visits a lattice point
\* and returns no field.
C8_ShapeMismatchRejected ==
  (pc \in {"E_ret", "B_ret"} /\ E_vec.shape # B_vec.shape) =>
    (ret.status = "ShapeMismatch" /\ ret.visited = 0)

\* dt <= 0, some h[d] <= 0 or some N[d] <= 0
InvalidParameter ==
  \/ (dt[1] <= 0 /\ dt[2] > 0)
  \/ \E d \in Axes : (h[d][1] <= 0 /\ h[d][2] > 0) \/ N[d] <= 0

\* C9: a call of update_E_vec or update_B_vec with dt <= 0, some h[d] <= 0
\* or some N[d] <= 0 fails with InvalidParameter before it visits a lattice
\* point and returns no field.
C9_InvalidParameterRejected ==
  (pc \in {"E_ret", "B_ret"} /\ InvalidParameter) =>
    (ret.status = "InvalidParameter" /\ ret.visited = 0)

\* ============================== the time loop on objects, with a parallel-for
\* The time loop once more, now with the arrays as objects in memory and the
\* loop nest of an update run as a parallel-for: every lattice point executes
\* the three statements of the loop body in program order, and the statements
\* of different points interleave in any order.

Obj(hp, a) == hp[a].obj

\* grids small enough for every interleaving of their points
ParShapes == { S \in Shapes : Cells(S) <= MaxParCells }

\* initial conditions of shape S
ObjPairs(S) ==
  { <<Pattern(S, 0), Pattern(S, 1)>>,
    <<Impulse(S, <<2, 0, 0, 0>>, MaxVal), Pattern(S, 0)>> }

\* the value statement c (0, 1, 2) of the body of update_E_vec assigns
E_stmt(c, dn, E, B, i, j, k) ==
  CASE c = 0 -> E_new_x(dn, E, B, i, j, k)
    [] c = 1 -> E_new_y(dn, E, B, i, j, k)
    [] c = 2 -> E_new_z(dn, E, B, i, j, k)

\* the value statement c (0, 1, 2) of the body of update_B_vec assigns
B_stmt(c, dn, E, B, i, j, k) ==
  CASE c = 0 -> B_new_x(dn, E, B, i, j, k)
    [] c = 1 -> B_new_y(dn, E, B, i, j, k)
    [] c = 2 -> B_new_z(dn, E, B, i, j, k)

\* update_E_vec writing its result over its argument E_vec, in place
E_vec_new_inplace(hp, r) == r.E_vec

\* where E_vec_new = np.zeros(...) of update_E_vec lives: a new object
E_vec_new_at(hp, r) == Alloc(hp)

\* update_B_vec writing its result into the array it differences, E_vec
B_vec_new_over_E(hp, r) == r.E_vec

\* where B_vec_new = np.zeros(...) of update_B_vec lives: a new object
B_vec_new_at(hp, r) == Alloc(hp)

\* every lattice point has executed its three statements
Complete == \A p \in AllPoints(N) : progress[p] = 3

ObjInit ==
  /\ dt = SomeStep[1]
  /\ h = SomeStep[2]
  /\ N \in ParShapes
  /\ N_timesteps \in 0..MaxSteps
  /\ \E ic \in ObjPairs(N) : E0 = ic[1] /\ B0 = ic[2]
  /\ E_vec = E0
  /\ B_vec = B0
  /\ heap = Store(Store(NoHeap, 0, E0), 1, B0)
  /\ ref = [NoRef EXCEPT !.E0 = 0, !.B0 = 1]
  /\ progress = [p \in AllPoints(N) |-> 0]
  /\ step = 0
  /\ pc = "copy"
  /\ E_vec_new = NoField
  /\ B_vec_new = NoField
  /\ delta_n = Vec(Zero, Zero, Zero)
  /\ pos = 0
  /\ written = {}
  /\ calls = <<>>
  /\ active = {}
  /\ ret = NoRet
  /\ c_scale = F(1)
  /\ pair = <<NoField, NoField>>

objframe == <<params, step, E_vec_new, B_vec_new, pos, written, direct>>

\* E_vec = E0.copy(); B_vec = B0.copy()
ObjCopy ==
  /\ pc = "copy"
  /\ LET a  == Alloc(heap)
         h1 == Store(heap, a, Obj(heap, ref.E0))
         b  == Alloc(h1)
     IN  /\ heap' = Store(h1, b, Obj(heap, ref.B0))
         /\ ref' = [ref EXCEPT !.E_vec = a, !.B_vec = b]
  /\ E_vec' = Obj(heap, ref.E0)
  /\ B_vec' = Obj(heap, ref.B0)
  /\ pc' = "for"
  /\ UNCHANGED <<objframe, delta_n, progress, calls, active>>

\* update_E_vec(dt, h, N, E_vec, B_vec) is entered: E_vec and B_vec hold the
\* values of its arguments at entry; the output buffer is allocated
ObjECall ==
  /\ pc = "for"
  /\ HasNext(step, N_timesteps)
  /\ LET a == E_vec_new_at(heap, ref) IN
       /\ heap' = Store(heap, a, np_zeros(Obj(heap, ref.E_vec).shape))
       /\ ref' = [ref EXCEPT !.E_vec_new = a]
  /\ E_vec' = Obj(heap, ref.E_vec)
  /\ B_vec' = Obj(heap, ref.B_vec)
  /\ delta_n' = delta(dt, h)
  /\ progress' = [p \in AllPoints(N) |-> 0]
  /\ calls' = Append(calls, "E")
  /\ active' = active \cup {"E"}
  /\ pc' = "E_par"
  /\ UNCHANGED objframe

\* some lattice point executes the next statement of the body of update_E_vec
ObjEStmt ==
  /\ pc = "E_par"
  /\ \E p \in AllPoints(N) :
       /\ progress[p] < 3
       /\ LET c == progress[p]
              E == Obj(heap, ref.E_vec)
              B == Obj(heap, ref.B_vec)
          IN  /\ BodyOK(E, B, p[1], p[2], p[3])
              /\ heap' = [heap EXCEPT ![ref.E_vec_new].obj =
                            set(@, c, p[1], p[2], p[3],
                                E_stmt(c, delta_n, E, B, p[1], p[2], p[3]))]
       /\ progress' = [progress EXCEPT ![p] = @ + 1]
  /\ UNCHANGED <<objframe, E_vec, B_vec, ref, delta_n, calls, active, pc>>

\* return E_vec_new; the loop rebinds the name E_vec to the returned object
ObjEReturn ==
  /\ pc = "E_par"
  /\ Complete
  /\ LET r == [ref EXCEPT !.E_vec = ref.E_vec_new, !.E_vec_new = Null] IN
       /\ ref' = r
       /\ heap' = Release(heap, r, ref.E_vec)
  /\ E_vec' = Obj(heap, ref.E_vec_new)
  /\ active' = active \ {"E"}
  /\ pc' = "B_call"
  /\ UNCHANGED <<objframe, B_vec, delta_n, progress, calls>>

\* update_B_vec(dt, h, N, E_vec, B_vec) is entered
ObjBCall ==
  /\ pc = "B_call"
  /\ LET a == B_vec_new_at(heap, ref) IN
       /\ heap' = Store(heap, a, np_zeros(Obj(heap, ref.B_vec).shape))
       /\ ref' = [ref EXCEPT !.B_vec_new = a]
  /\ E_vec' = Obj(heap, ref.E_vec)
  /\ B_vec' = Obj(heap, ref.B_vec)
  /\ delta_n' = delta(dt, h)
  /\ progress' = [p \in AllPoints(N) |-> 0]
  /\ calls' = Append(calls, "B")
  /\ active' = active \cup {"B"}
  /\ pc' = "B_par"
  /\ UNCHANGED objframe

\* some lattice point executes the next statement of the body of update_B_vec
ObjBStmt ==
  /\ pc = "B_par"
  /\ \E p \in AllPoints(N) :
       /\ progress[p] < 3
       /\ LET c == progress[p]
              E == Obj(heap, ref.E_vec)
              B == Obj(heap, ref.B_vec)
          IN  /\ BodyOK(B, E, p[1], p[2], p[3])
              /\ heap' = [heap EXCEPT ![ref.B_vec_new].obj =
                            set(@, c, p[1], p[2], p[3],
                                B_stmt(c, delta_n, E, B, p[1], p[2], p[3]))]
       /\ progress' = [progress EXCEPT ![p] = @ + 1]
  /\ UNCHANGED <<objframe, E_vec, B_vec, ref, delta_n, calls, active, pc>>

\* return B_vec_new; the loop rebinds the name B_vec; the iteration is over
ObjBReturn ==
  /\ pc = "B_par"
  /\ Complete
  /\ LET r == [ref EXCEPT !.B_vec = ref.B_vec_new, !.B_vec_new = Null] IN
       /\ ref' = r
       /\ heap' = Release(heap, r, ref.B_vec)
  /\ B_vec' = Obj(heap, ref.B_vec_new)
  /\ active' = active \ {"B"}
  /\ step' = step + 1
  /\ pc' = "for"
  /\ UNCHANGED <<dt, h, N, N_timesteps, E0, B0, E_vec_new, B_vec_new, pos,
                 written, direct, E_vec, delta_n, progress, calls>>

\* range(N_timesteps) is exhausted
ObjExit ==
  /\ pc = "for"
  /\ ~HasNext(step, N_timesteps)
  /\ pc' = "done"
  /\ UNCHANGED <<objframe, E_vec, B_vec, delta_n, calls, active, objects>>

ObjNext ==
  \/ ObjCopy
  \/ ObjECall
  \/ ObjEStmt
  \/ ObjEReturn
  \/ ObjBCall
  \/ ObjBStmt
  \/ ObjBReturn
  \/ ObjExit

SpecObj == ObjInit /\ [][ObjNext]_vars

\* ============================================== the loop on objects: claims
\* the output buffer holds, at every point and component, the value the
\* sequential loop nest assigns there if the statement has been executed and
\* the zero of np.zeros if it has not
BufferAgrees(buf, seq) ==
  /\ seq.status = "return"
  /\ buf.shape = seq.value.shape
  /\ \A p \in AllPoints(N) : \A c \in Comp :
       buf.data[<<c>> \o p]
         = (IF c < progress[p] THEN seq.value.data[<<c>> \o p] ELSE Zero)

\* C11: whatever the order in which the lattice points of one update call
\* execute their statements, and however they interleave, every value written
\* to the output buffer is the value the sequential i, j, k loop writes
\* there, so the field the call returns is the field of the sequential loop;
\* a run of the time loop ends in the pair of the sequential recurrence.
C11_AnyOrder ==
  /\ pc = "E_par" =>
       BufferAgrees(Obj(heap, ref.E_vec_new),
                    update_E_vec(dt, h, N, E_vec, B_vec))
  /\ pc = "B_par" =>
       BufferAgrees(Obj(heap, ref.B_vec_new),
                    update_B_vec(dt, h, N, E_vec, B_vec))
  /\ pc = "done" => <<E_vec, B_vec>> = LeapFrog(N_timesteps, E0, B0)

\* a point late in the loop order has written its z statement, with a value
\* other than its input, while a point before it is part-way through its body
C11_Witness ==
  /\ pc \in {"E_par", "B_par"}
  /\ \E a \in 0..(Cells(N) - 1) : \E b \in (a + 1)..(Cells(N) - 1) :
       LET p   == PointAt(N, a)
           q   == PointAt(N, b)
           buf == IF pc = "E_par" THEN Obj(heap, ref.E_vec_new)
                  ELSE Obj(heap, ref.B_vec_new)
           own == IF pc = "E_par" THEN E_vec ELSE B_vec
       IN  /\ progress[p] \in {1, 2}
           /\ progress[q] = 3
           /\ buf.data[<<2>> \o q] # own.data[<<2>> \o q]
           /\ buf.data[<<2>> \o q] # Zero

\* the object a running update writes to
OutRef == IF pc = "E_par" THEN ref.E_vec_new ELSE ref.B_vec_new

\* C12: while an update runs and when it returns, its arguments E_vec and
\* B_vec hold at every component and lattice point the values they had at
\* entry, and its output is an object none of the names E_vec, B_vec, E0, B0
\* is bound to; E0 and B0 hold their initial values in every state of a run.
C12_Purity ==
  /\ heap[ref.E0].live /\ Obj(heap, ref.E0) = E0
  /\ heap[ref.B0].live /\ Obj(heap, ref.B0) = B0
  /\ pc # "copy" =>
       /\ heap[ref.E_vec].live /\ Obj(heap, ref.E_vec) = E_vec
       /\ heap[ref.B_vec].live /\ Obj(heap, ref.B_vec) = B_vec
       /\ Cardinality({ref.E0, ref.B0, ref.E_vec, ref.B_vec}) = 4
  /\ pc \in {"E_par", "B_par"} =>
       /\ heap[OutRef].live
       /\ OutRef \notin {ref.E0, ref.B0, ref.E_vec, ref.B_vec}

\* three updates have returned and changed both fields, and the B-update of
\* the second iteration is writing its output
C12_Witness ==
  /\ pc = "B_par"
  /\ Len(calls) = 4
  /\ E_vec # E0
  /\ B_vec # B0
  /\ \E p \in AllPoints(N) : progress[p] = 3
  /\ Obj(heap, ref.B_vec_new) # np_zeros(N)

\* ================================================ discrete divergence: claims
\* the periodic backward-difference divergence of A at (i, j, k):
\* the sum over d of (A[d] - A[d] one back along d) / h[d]
Div(A, i, j, k) ==
  fAdd(fAdd(fDiv(BackDiff(A, 0, 0, i, j, k), h[0]),
            fDiv(BackDiff(A, 1, 1, i, j, k), h[1])),
       fDiv(BackDiff(A, 2, 2, i, j, k), h[2]))

DivField(A) == [p \in AllPoints(N) |-> Div(A, p[1], p[2], p[3])]

DivFree(A) == \A p \in AllPoints(N) : Div(A, p[1], p[2], p[3]) = Zero

\* C13: at every lattice point the divergence of the field update_E_vec is
\* about to return equals the divergence of its argument E, and likewise for
\* B and update_B_vec; whenever the time loop stands between two updates,
\* and when it has ended, the divergences of E and B are those of E0 and B0,
\* and a field that starts divergence-free is divergence-free.  (The loop
\* rebinds E_vec and B_vec only when an update returns.)
C13_DivergenceConserved ==
  /\ (pc = "E_loop" /\ LoopDone(pos, N)) =>
       DivField(E_vec_new) = DivField(E_vec)
  /\ (pc = "B_loop" /\ LoopDone(pos, N)) =>
       DivField(B_vec_new) = DivField(B_vec)
  /\ pc \in {"for", "B_call", "done"} =>
       /\ DivField(E_vec) = DivField(E0)
       /\ DivField(B_vec) = DivField(B0)
       /\ DivFree(E0) => DivFree(E_vec)
       /\ DivFree(B0) => DivFree(B_vec)

\* two iterations have changed both fields, on a grid with more than one
\* point along every axis but one: E has a divergence that is not zero, B is
\* not zero and divergence-free
C13_Witness ==
  /\ pc = "for"
  /\ step = 2
  /\ Cardinality({d \in Axes : N[d] >= 2}) >= 2
  /\ E_vec # E0
  /\ B_vec # B0
  /\ ~DivFree(E0)
  /\ DivFree(B0)
  /\ B0 # np_zeros(N)

====
